---- MODULE Spec2Model ----
(***************************************************************************)
(* PageManager and ChoiceSelectMenuBuilder of                              *)
(* discordjs-choice-selectmenu-builder (src/src/PageManager.ts).           *)
(*                                                                         *)
(* An array T[] is a sequence; the element with JavaScript index i is at   *)
(* position i + 1.  A Collection<number, T> is the sequence of its         *)
(* <<key, value>> entries in insertion order.  An optional value is <<>>   *)
(* (undefined) or <<v>>.  The non-finite doubles are three integers far    *)
(* outside every finite value the model produces.                          *)
(***************************************************************************)
EXTENDS Integers, Sequences, FiniteSets, TLC

VARIABLES
    options,      \* ChoiceSelectMenuBuilder.options / PageManager.array
    heap,         \* the Collection objects, by reference
    dataSel,      \* data.selected: a reference into heap
    pagesSel,     \* data.pages.selected (PageManager.selected): a reference
    minChoices,   \* PageManager.minChoices
    maxChoices,   \* PageManager.maxChoices, <<>> when unset
    current,      \* PageManager.current
    customId,     \* data.customId, <<>> when unset
    ret           \* the last call: its name, current before it, its outcome

vars == <<options, heap, dataSel, pagesSel, minChoices, maxChoices, current,
          customId, ret>>

(***************************************************************************)
(* Bounds of the model.                                                    *)
(***************************************************************************)
MaxSel == 2       \* individually picked selections
MaxArg == 3       \* largest page number passed to getPage / the constructor

(***************************************************************************)
(* JavaScript numbers.                                                     *)
(***************************************************************************)
Infinity == 1000000
NaN == 999999
NegInfinity == -Infinity

isFinite(x) == x \notin {Infinity, NegInfinity, NaN}

undefined == <<>>

\* x + k for a finite k
Plus(x, k) == IF isFinite(x) THEN x + k ELSE x

\* x * k for a finite k > 0
Times(x, k) == IF isFinite(x) THEN x * k ELSE x

\* Math.min(a, b), Math.max(a, b)
MathMin2(a, b) == IF a = NaN \/ b = NaN THEN NaN ELSE IF a < b THEN a ELSE b

MathMax2(a, b) == IF a = NaN \/ b = NaN THEN NaN ELSE IF a > b THEN a ELSE b

\* Math.min(...S), Math.max(...S) of a finite set of finite numbers
MathMin(S) == IF S = {} THEN Infinity ELSE CHOOSE x \in S : \A y \in S : x <= y

MathMax(S) == IF S = {} THEN NegInfinity
              ELSE CHOOSE x \in S : \A y \in S : x >= y

\* a < b on numbers
Lt(a, b) == a # NaN /\ b # NaN /\ a < b

\* Math.ceil(a / b) for finite a, b
CeilDiv(a, b) ==
    IF b = 0 THEN (IF a > 0 THEN Infinity ELSE IF a < 0 THEN NegInfinity ELSE NaN)
    ELSE IF b > 0 THEN 0 - ((0 - a) \div b)
    ELSE 0 - (a \div (0 - b))

(***************************************************************************)
(* Collection<number, T>                                                   *)
(***************************************************************************)
keys(c) == [i \in 1..Len(c) |-> c[i][1]]

keySet(c) == {c[i][1] : i \in 1..Len(c)}

size(c) == Len(c)

has(c, k) == k \in keySet(c)

\* Map.prototype.set: an existing key keeps its place
set(c, k, v) ==
    IF has(c, k) THEN [i \in 1..Len(c) |-> IF c[i][1] = k THEN <<k, v>> ELSE c[i]]
    ELSE Append(c, <<k, v>>)

delete(c, k) == SelectSeq(c, LAMBDA e : e[1] # k)

(***************************************************************************)
(* Array.prototype.slice                                                   *)
(***************************************************************************)
RelIndex(x, len) ==
    IF x = NaN THEN 0
    ELSE IF x < 0 THEN (IF len + x < 0 THEN 0 ELSE len + x)
    ELSE IF x > len THEN len ELSE x

ArraySlice(s, a, b) ==
    LET k == RelIndex(a, Len(s))
        f == RelIndex(b, Len(s))
    IN  IF k < f THEN SubSeq(s, k + 1, f) ELSE <<>>

(***************************************************************************)
(* PageManager.  pm is a record with the fields array, selected,           *)
(* minChoices, maxChoices and current.                                     *)
(***************************************************************************)
length == 25

carrySelected(pm) == Lt(0, pm.minChoices)

max(pm) ==
    IF ~carrySelected(pm) THEN Plus(CeilDiv(Len(pm.array), length), -1)
    ELSE LET notSelected == Len(pm.array) - size(pm.selected)
             newPageSize == length - size(pm.selected)
         IN  Plus(CeilDiv(notSelected, newPageSize), -1)

\* getSlice that leaves the selected entries in the slice
getSlice_KeepSelected(pm, start, end, removeSelected) ==
    LET sl == ArraySlice(pm.array, start, end)
        newSlice == [i \in 1..Len(sl) |-> <<(i - 1) + start, sl[i]>>]
    IN  IF ~removeSelected THEN newSlice
        ELSE ArraySlice(newSlice, 0, length - size(pm.selected))

\* getSlice that numbers the entries from 0 instead of from start
getSlice_LocalIndex(pm, start, end, removeSelected) ==
    LET sl == ArraySlice(pm.array, start, end)
        newSlice == [i \in 1..Len(sl) |-> <<i - 1, sl[i]>>]
    IN  IF ~removeSelected THEN newSlice
        ELSE ArraySlice(SelectSeq(newSlice, LAMBDA v : ~has(pm.selected, v[1])),
                        0, length - size(pm.selected))

getSlice(pm, start, end, removeSelected) ==
    LET sl == ArraySlice(pm.array, start, end)
        newSlice == [i \in 1..Len(sl) |-> <<(i - 1) + start, sl[i]>>]
    IN  IF ~removeSelected THEN newSlice
        ELSE ArraySlice(SelectSeq(newSlice, LAMBDA v : ~has(pm.selected, v[1])),
                        0, length - size(pm.selected))

\* getEndIndex that does not add the selected indices of the window
getEndIndex_NoWithin(pm, start, selectedIndeces) ==
    (start + length) - Len(selectedIndeces)

getEndIndex(pm, start, selectedIndeces) ==
    LET end == start + length
        withinBounds == Cardinality({i \in 1..Len(selectedIndeces) :
                            selectedIndeces[i] >= start /\ selectedIndeces[i] < end})
    IN  end - Len(selectedIndeces) + withinBounds

\* the value of start after n rounds of the loop of getPage
RECURSIVE WalkStart(_, _, _)
WalkStart(pm, start, n) ==
    IF n <= 0 THEN start
    ELSE WalkStart(pm, getEndIndex(pm, start, keys(pm.selected)), n - 1)

\* getPage without the check of the length of the page
getPage_NoLengthCheck(pm, pageNumber) ==
    LET arg == IF pageNumber = undefined THEN pm.current ELSE pageNumber[1]
        page == MathMin2(max(pm), arg)
    IN  IF ~carrySelected(pm)
        THEN LET start == Times(page, length)
                 end == Plus(start, length)
             IN  [kind |-> "ok", page |-> getSlice(pm, start, end, FALSE)]
        ELSE IF page = Infinity THEN [kind |-> "hang", page |-> <<>>]
        ELSE LET rounds == IF Lt(0, page) THEN page ELSE 0
                 start == WalkStart(pm, 0, rounds)
                 end == getEndIndex(pm, start, keys(pm.selected))
                 output == pm.selected \o getSlice(pm, start, end, TRUE)
             IN  [kind |-> "ok", page |-> output]

\* getPage that raises for a page below 0
getPage_RejectNegative(pm, pageNumber) ==
    LET arg == IF pageNumber = undefined THEN pm.current ELSE pageNumber[1]
        page == MathMin2(max(pm), arg)
    IN  IF Lt(page, 0) THEN [kind |-> "throw", page |-> <<>>]
        ELSE getPage_NoLengthCheck(pm, pageNumber)

\* getPage(pageNumber?): [kind |-> "ok", page |-> the entries], or
\* kind "throw" for the page-length error, or kind "hang" when the loop
\* "while (currentPage < page)" does not end
getPage(pm, pageNumber) ==
    LET arg == IF pageNumber = undefined THEN pm.current ELSE pageNumber[1]
        page == MathMin2(max(pm), arg)
    IN  IF ~carrySelected(pm)
        THEN LET start == Times(page, length)
                 end == Plus(start, length)
             IN  [kind |-> "ok", page |-> getSlice(pm, start, end, FALSE)]
        ELSE IF page = Infinity THEN [kind |-> "hang", page |-> <<>>]
        ELSE LET rounds == IF Lt(0, page) THEN page ELSE 0
                 start == WalkStart(pm, 0, rounds)
                 end == getEndIndex(pm, start, keys(pm.selected))
                 output == pm.selected \o getSlice(pm, start, end, TRUE)
             IN  IF Len(output) > length
                 THEN [kind |-> "throw", page |-> output]
                 ELSE [kind |-> "ok", page |-> output]

\* hasFreePageMovement that is still free when maxChoices is reached
hasFreePageMovement_AtLimit(pm) ==
    \/ carrySelected(pm)
    \/ Len(pm.array) <= length
    \/ ~Lt(IF pm.maxChoices = undefined THEN Len(pm.array) ELSE pm.maxChoices[1],
           size(pm.selected))

hasFreePageMovement(pm) ==
    \/ carrySelected(pm)
    \/ Len(pm.array) <= length
    \/ Lt(size(pm.selected),
          IF pm.maxChoices = undefined THEN Len(pm.array) ELSE pm.maxChoices[1])

\* the page of a selected index without the step back to its own page
PageOfIndex_Ceil(i) == CeilDiv(i, length)

\* the page of a selected index with the step back also at a multiple of length
PageOfIndex_NoBoundary(i) == CeilDiv(i, length) - 1

\* the page of a selected index: Math.ceil(i / length), minus one unless
\* i is a multiple of length
PageOfIndex(i) ==
    IF i % length # 0 THEN CeilDiv(i, length) - 1 ELSE CeilDiv(i, length)

\* first() that goes back one page at a time
first_StepBack(pm) ==
    IF hasFreePageMovement(pm) THEN MathMax2(0, Plus(pm.current, -1))
    ELSE LET minSelected == MathMin(keySet(pm.selected))
         IN  IF ~isFinite(minSelected) THEN pm.current
             ELSE PageOfIndex(minSelected)

\* first(), previous(), next(), last(): the new value of current
first(pm) ==
    IF hasFreePageMovement(pm) THEN 0
    ELSE LET minSelected == MathMin(keySet(pm.selected))
         IN  IF ~isFinite(minSelected) THEN pm.current
             ELSE PageOfIndex(minSelected)

\* previous() that also takes the first index of the current page
previous_Inclusive(pm) ==
    IF hasFreePageMovement(pm) THEN MathMax2(0, Plus(pm.current, -1))
    ELSE LET currentPageStart == Times(pm.current, length)
             maxPreviousIndex ==
                 MathMax({n \in keySet(pm.selected) : ~Lt(currentPageStart, n)
                                                      /\ currentPageStart # NaN})
         IN  IF ~isFinite(maxPreviousIndex) THEN pm.current
             ELSE PageOfIndex(maxPreviousIndex)

\* previous() that goes to page 0 when no selected index lies before the page
previous_ToStart(pm) ==
    IF hasFreePageMovement(pm) THEN MathMax2(0, Plus(pm.current, -1))
    ELSE LET currentPageStart == Times(pm.current, length)
             maxPreviousIndex ==
                 MathMax({n \in keySet(pm.selected) : Lt(n, currentPageStart)})
         IN  IF ~isFinite(maxPreviousIndex) THEN 0
             ELSE PageOfIndex(maxPreviousIndex)

previous(pm) ==
    IF hasFreePageMovement(pm) THEN MathMax2(0, Plus(pm.current, -1))
    ELSE LET currentPageStart == Times(pm.current, length)
             maxPreviousIndex ==
                 MathMax({n \in keySet(pm.selected) : Lt(n, currentPageStart)})
         IN  IF ~isFinite(maxPreviousIndex) THEN pm.current
             ELSE PageOfIndex(maxPreviousIndex)

\* next() that skips the first index of the next page
next_Strict(pm) ==
    IF hasFreePageMovement(pm) THEN MathMin2(max(pm), Plus(pm.current, 1))
    ELSE LET currentPageEnd == Plus(Times(pm.current, length), length)
             minNextIndex ==
                 MathMin({n \in keySet(pm.selected) : Lt(currentPageEnd, n)})
         IN  IF ~isFinite(minNextIndex) THEN pm.current
             ELSE PageOfIndex(minNextIndex)

next(pm) ==
    IF hasFreePageMovement(pm) THEN MathMin2(max(pm), Plus(pm.current, 1))
    ELSE LET currentPageEnd == Plus(Times(pm.current, length), length)
             minNextIndex ==
                 MathMin({n \in keySet(pm.selected) : ~Lt(n, currentPageEnd)
                                                      /\ currentPageEnd # NaN})
         IN  IF ~isFinite(minNextIndex) THEN pm.current
             ELSE PageOfIndex(minNextIndex)

\* last() that takes the smallest selected index
last_Smallest(pm) ==
    IF hasFreePageMovement(pm) THEN max(pm)
    ELSE LET maxSelected == MathMin(keySet(pm.selected))
         IN  IF ~isFinite(maxSelected) THEN pm.current
             ELSE PageOfIndex(maxSelected)

last(pm) ==
    IF hasFreePageMovement(pm) THEN max(pm)
    ELSE LET maxSelected == MathMax(keySet(pm.selected))
         IN  IF ~isFinite(maxSelected) THEN pm.current
             ELSE PageOfIndex(maxSelected)

(***************************************************************************)
(* The state as the PageManager sees it, and the inputs of the model.      *)
(***************************************************************************)
selected == heap[pagesSel]

pages == [array |-> options, selected |-> selected, minChoices |-> minChoices,
          maxChoices |-> maxChoices, current |-> current]

Item(i) == <<"option", i>>

MkArray(n) == [i \in 1..n |-> Item(i - 1)]

\* no page, one full page, two pages, three pages
Lengths == {0, length, length + 1, 3 * length}

\* the indices that are picked one by one: first and last of a page
Keys == {0, length - 1, length, 2 * length}

\* the sizes of the selections of a whole prefix of the array
BulkSizes == {length, length + 1}

\* the collections of up to n of the keys K of array arr, in any order
Picks(arr, K, n) ==
    LET ks == {s \in UNION {[1..m -> K] : m \in 0..n} :
                   \A i, j \in 1..Len(s) : i # j => s[i] # s[j]}
    IN  {[i \in 1..Len(s) |-> <<s[i], arr[s[i] + 1]>>] : s \in ks}

\* the collection of the first n elements of arr
Prefix(arr, n) == [i \in 1..n |-> <<i - 1, arr[i]>>]

Refs == {0, 1, 2}

EmptyHeap == [r \in Refs |-> <<>>]

NoOut == [kind |-> "none", page |-> <<>>]

Ok == [kind |-> "ok", page |-> <<>>]

Invalid == [kind |-> "invalid", page |-> <<>>]

Call(op, arg, out) == [op |-> op, pre |-> current, arg |-> arg, out |-> out]

\* with max = Infinity next() counts up without end, and from a negative max
\* it counts up to 0: the model follows current from -1 to MaxArg, and
\* through the values that are not finite
Capped(c) == isFinite(c) => c \in (0 - 1)..MaxArg

PageArgs == {undefined} \cup {<<p>> : p \in (0 - 1)..MaxArg}

(***************************************************************************)
(* PageManager used directly: the constructor and the calls of its user.   *)
(***************************************************************************)
InitPM ==
    /\ options \in {MkArray(n) : n \in Lengths}
    /\ dataSel = 0
    /\ pagesSel = 0
    /\ \E c \in Picks(options, {k \in Keys : k < Len(options)}, MaxSel)
                \cup {Prefix(options, n) : n \in {b \in BulkSizes : b <= Len(options)}} :
           heap = [EmptyHeap EXCEPT ![0] = c]
    /\ minChoices \in {0, 3}
    /\ maxChoices \in {undefined, <<0 - 1>>} \cup {<<n>> : n \in 1..MaxSel}
    /\ current \in 0..MaxArg
    /\ customId = undefined
    /\ ret = [op |-> "new", pre |-> current, arg |-> undefined, out |-> NoOut]

PMfirst ==
    /\ Capped(first(pages))
    /\ current' = first(pages)
    /\ ret' = Call("first", undefined, NoOut)
    /\ UNCHANGED <<options, heap, dataSel, pagesSel, minChoices, maxChoices, customId>>

PMprevious ==
    /\ Capped(previous(pages))
    /\ current' = previous(pages)
    /\ ret' = Call("previous", undefined, NoOut)
    /\ UNCHANGED <<options, heap, dataSel, pagesSel, minChoices, maxChoices, customId>>

\* next() that also empties the selection
PMnext_Clears ==
    /\ Capped(next(pages))
    /\ current' = next(pages)
    /\ heap' = [heap EXCEPT ![pagesSel] = <<>>]
    /\ ret' = Call("next", undefined, NoOut)
    /\ UNCHANGED <<options, dataSel, pagesSel, minChoices, maxChoices, customId>>

PMnext ==
    /\ Capped(next(pages))
    /\ current' = next(pages)
    /\ ret' = Call("next", undefined, NoOut)
    /\ UNCHANGED <<options, heap, dataSel, pagesSel, minChoices, maxChoices, customId>>

PMlast ==
    /\ Capped(last(pages))
    /\ current' = last(pages)
    /\ ret' = Call("last", undefined, NoOut)
    /\ UNCHANGED <<options, heap, dataSel, pagesSel, minChoices, maxChoices, customId>>

PMgetPage ==
    \E p \in PageArgs :
        /\ ret' = Call("getPage", p, getPage(pages, p))
        /\ UNCHANGED <<options, heap, dataSel, pagesSel, minChoices, maxChoices,
                       current, customId>>

\* manager.selected.set(k, v), .delete(k), .clear() by the owner of the collection
PMselectedSet ==
    \E k \in {k \in Keys : k < Len(options)} :
        /\ size(selected) < MaxSel
        /\ heap' = [heap EXCEPT ![pagesSel] = set(selected, k, options[k + 1])]
        /\ ret' = Call("set", <<k>>, NoOut)
        /\ UNCHANGED <<options, dataSel, pagesSel, minChoices, maxChoices,
                       current, customId>>

PMselectedDelete ==
    \E k \in keySet(selected) :
        /\ size(selected) <= MaxSel
        /\ heap' = [heap EXCEPT ![pagesSel] = delete(selected, k)]
        /\ ret' = Call("delete", <<k>>, NoOut)
        /\ UNCHANGED <<options, dataSel, pagesSel, minChoices, maxChoices,
                       current, customId>>

PMselectedClear ==
    /\ heap' = [heap EXCEPT ![pagesSel] = <<>>]
    /\ ret' = Call("clear", undefined, NoOut)
    /\ UNCHANGED <<options, dataSel, pagesSel, minChoices, maxChoices,
                   current, customId>>

NextPM ==
    \/ PMfirst
    \/ PMprevious
    \/ PMnext
    \/ PMlast
    \/ PMgetPage
    \/ PMselectedSet
    \/ PMselectedDelete
    \/ PMselectedClear

SpecPM == InitPM /\ [][NextPM]_vars

(***************************************************************************)
(* PageManager in carry mode over longer collections, with selections at   *)
(* the end of the window of a page and in the middle of the collection.    *)
(***************************************************************************)
\* two pages, and nearly four
PagedLengths == {2 * length, 4 * length - 5}

\* the last index of the windows [0, 25) and [48, 73)
PagedKeys == {length - 1, 3 * length - 3}

\* three neighbours in the middle of a collection of 50
Neighbours == <<length + 5, length + 6, length + 7>>

InitPaged ==
    /\ options \in {MkArray(n) : n \in PagedLengths}
    /\ dataSel = 0
    /\ pagesSel = 0
    /\ \E c \in Picks(options, {k \in PagedKeys : k < Len(options)}, MaxSel)
                \cup {[i \in 1..Len(Neighbours) |->
                          <<Neighbours[i], options[Neighbours[i] + 1]>>]} :
           heap = [EmptyHeap EXCEPT ![0] = c]
    /\ minChoices = 3
    /\ maxChoices \in {undefined, <<3>>}
    /\ current = 0
    /\ customId = undefined
    /\ ret = [op |-> "new", pre |-> current, arg |-> undefined, out |-> NoOut]

SpecPaged == InitPaged /\ [][NextPM]_vars

(***************************************************************************)
(* ChoiceSelectMenuBuilder                                                 *)
(***************************************************************************)
OPTIONS_LIMIT == 25

dataSelected == heap[dataSel]

\* the indices the callers of the builder pick one by one
BKeys == {k \in {0, length - 1, length} : k < Len(options)}

Bulk == {0..(n - 1) : n \in {b \in BulkSizes : b <= Len(options)}}

\* a select callback is modelled by the set of indices it accepts: none,
\* one index, or a whole prefix of the array
Callbacks == {{}} \cup {{k} : k \in BKeys} \cup Bulk

\* the model keeps a collection small, or one of the prefixes
SelBound(c) == size(c) <= MaxSel \/ c \in {Prefix(options, Cardinality(S)) : S \in Bulk}

\* this.options.forEach((option, index) => { if (selectFn(option, index))
\* collection.set(index, option) }): the accepted indices in ascending order;
\* a key already present keeps its place
forEachSet(c, S) ==
    LET fresh == SelectSeq([i \in 1..Len(options) |-> i - 1],
                           LAMBDA x : x \in S /\ ~has(c, x))
    IN  [i \in 1..Len(c) |-> IF c[i][1] \in S /\ c[i][1] \in 0..(Len(options) - 1)
                             THEN <<c[i][1], options[c[i][1] + 1]>> ELSE c[i]]
            \o [i \in 1..Len(fresh) |-> <<fresh[i], options[fresh[i] + 1]>>]

\* Collection.filter: a new collection of the entries whose key is in S
filter(c, S) == SelectSeq(c, LAMBDA e : e[1] \in S)

\* the collections and the two references to them
Sel == [heap |-> heap, dataSel |-> dataSel, pagesSel |-> pagesSel]

\* references are renamed after an assignment: data.selected is object 0,
\* pages.selected is object 0 too when it is the same object, else object 1
Normal(st) ==
    [heap |-> [r \in Refs |-> IF r = 0 THEN st.heap[st.dataSel]
                              ELSE IF r = 1 /\ st.pagesSel # st.dataSel
                                   THEN st.heap[st.pagesSel] ELSE <<>>],
     dataSel |-> 0,
     pagesSel |-> IF st.pagesSel = st.dataSel THEN 0 ELSE 1]

Store(st) ==
    /\ heap' = st.heap
    /\ dataSel' = st.dataSel
    /\ pagesSel' = st.pagesSel

Fresh(st) == CHOOSE r \in Refs : r # st.dataSel /\ r # st.pagesSel

effectiveMax == IF maxChoices = undefined THEN Len(options) ELSE maxChoices[1]

\* no page, one full page, two full pages
BLengths == {0, length, 2 * length}

\* new ChoiceSelectMenuBuilder(choices, selected?)
Init ==
    /\ options \in {MkArray(n) : n \in BLengths}
    /\ dataSel = 0
    /\ pagesSel = 0
    /\ minChoices = 0
    /\ maxChoices = undefined
    /\ current = 0
    /\ customId = undefined
    /\ \E S \in Callbacks :
           heap = [EmptyHeap EXCEPT ![0] = forEachSet(<<>>, S)]
    /\ ret = [op |-> "new", pre |-> 0, arg |-> undefined, out |-> NoOut]

\* the model does not follow a builder that has stored NaN as a bound
Followed == minChoices # NaN /\ maxChoices # <<NaN>>

\* the id is set first: until then the other calls that change the builder
\* wait (no call but setCustomId reads or writes data.customId)
Ready == customId # undefined /\ Followed

setCustomId ==
    /\ customId' = <<"menu">>
    /\ ret' = Call("setCustomId", undefined, Ok)
    /\ UNCHANGED <<options, heap, dataSel, pagesSel, minChoices, maxChoices, current>>

\* the amounts passed to the setters: integers, and NaN for a builder
\* that has nothing selected
Amounts(S) == S \cup (IF dataSelected = <<>> /\ current = 0 THEN {NaN} ELSE {})

MinAmounts == Amounts({0 - 1, 0, MaxSel, OPTIONS_LIMIT + 1})

setMinChoices ==
    \E amount \in MinAmounts :
        /\ Ready
        /\ IF Lt(OPTIONS_LIMIT, amount) \/ Lt(amount, 0) \/ Lt(Len(options), amount)
           THEN /\ minChoices' = minChoices
                /\ ret' = Call("setMinChoices", <<amount>>, Invalid)
           ELSE /\ minChoices' = amount
                /\ ret' = Call("setMinChoices", <<amount>>, Ok)
        /\ UNCHANGED <<options, heap, dataSel, pagesSel, maxChoices, current, customId>>

MaxAmounts == Amounts({0, 1, MaxSel, Len(options) + 1})

setMaxChoices ==
    \E amount \in MaxAmounts :
        /\ Ready
        /\ IF (amount # NaN /\ amount <= 0) \/ Lt(Len(options), amount)
           THEN /\ maxChoices' = maxChoices
                /\ ret' = Call("setMaxChoices", <<amount>>, Invalid)
           ELSE /\ maxChoices' = <<amount>>
                /\ ret' = Call("setMaxChoices", <<amount>>, Ok)
        /\ UNCHANGED <<options, heap, dataSel, pagesSel, minChoices, current, customId>>

\* addValues on the collection c: the collection is changed before the check;
\* ret.arg holds the set of indices the callback accepts
addValuesTo(op, c, S) ==
    LET collection == forEachSet(c, S)
    IN  /\ Ready
        /\ SelBound(collection)
        /\ heap' = [heap EXCEPT ![dataSel] = collection]
        /\ ret' = Call(op, <<S>>, IF effectiveMax < size(collection) THEN Invalid ELSE Ok)
        /\ UNCHANGED <<options, dataSel, pagesSel, minChoices, maxChoices,
                       current, customId>>

\* setValues without the clear
setValues_NoClear == \E S \in Callbacks : addValuesTo("setValues", dataSelected, S)

setValues == \E S \in Callbacks : addValuesTo("setValues", <<>>, S)

addValues == \E S \in Callbacks : addValuesTo("addValues", dataSelected, S)

\* filterValues that assigns the filtered collection to data.selected only
filterValuesIn_DataOnly(st, S) ==
    LET filtered == filter(st.heap[st.dataSel], S)
        r == Fresh(st)
    IN  Normal([heap |-> [st.heap EXCEPT ![r] = filtered],
                dataSel |-> r, pagesSel |-> st.pagesSel])

\* filterValues on the selection st, keeping the keys in S
filterValuesIn(st, S) ==
    LET filtered == filter(st.heap[st.dataSel], S)
        r == Fresh(st)
    IN  Normal([heap |-> [st.heap EXCEPT ![r] = filtered],
                dataSel |-> r, pagesSel |-> r])

filterValues ==
    \E S \in Callbacks :
        /\ Ready
        /\ SelBound(filter(dataSelected, S))
        /\ Store(filterValuesIn(Sel, S))
        /\ ret' = Call("filterValues", undefined, Ok)
        /\ UNCHANGED <<options, minChoices, maxChoices, current, customId>>

clearValues ==
    /\ Ready
    /\ heap' = [heap EXCEPT ![dataSel] = <<>>]
    /\ ret' = Call("clearValues", undefined, Ok)
    /\ UNCHANGED <<options, dataSel, pagesSel, minChoices, maxChoices, current, customId>>

\* popValue that removes the selection inserted first
popValue_First ==
    /\ Ready
    /\ IF size(dataSelected) = 0
       THEN /\ heap' = heap
            /\ ret' = Call("popValue", undefined, Ok)
       ELSE LET firstKey == dataSelected[1][1]
            IN  /\ SelBound(delete(dataSelected, firstKey))
                /\ heap' = [heap EXCEPT ![dataSel] = delete(dataSelected, firstKey)]
                /\ ret' = Call("popValue", undefined,
                               [kind |-> "ok", page |-> <<dataSelected[1]>>])
    /\ UNCHANGED <<options, dataSel, pagesSel, minChoices, maxChoices, current, customId>>

\* popValue: ret.out.page holds the entry removed, if any
popValue ==
    /\ Ready
    /\ IF size(dataSelected) = 0
       THEN /\ heap' = heap
            /\ ret' = Call("popValue", undefined, Ok)
       ELSE LET lastKey == dataSelected[size(dataSelected)][1]
            IN  /\ SelBound(delete(dataSelected, lastKey))
                /\ heap' = [heap EXCEPT ![dataSel] = delete(dataSelected, lastKey)]
                /\ ret' = Call("popValue", undefined,
                               [kind |-> "ok", page |-> <<dataSelected[size(dataSelected)]>>])
    /\ UNCHANGED <<options, dataSel, pagesSel, minChoices, maxChoices, current, customId>>

toPage(op, page) ==
    /\ Ready
    /\ Capped(page)
    /\ current' = page
    /\ ret' = Call(op, undefined, Ok)
    /\ UNCHANGED <<options, heap, dataSel, pagesSel, minChoices, maxChoices, customId>>

toFirstPage == toPage("toFirstPage", first(pages))

toPreviousPage == toPage("toPreviousPage", previous(pages))

toNextPage == toPage("toNextPage", next(pages))

toLastPage == toPage("toLastPage", last(pages))

(***************************************************************************)
(* Interactions.  A string is the sequence of its parts between "--"; a    *)
(* part is <<"num", n>>, the decimal numeral of the integer n, or          *)
(* <<"txt", s>>, a text s that holds no numeral.                           *)
(***************************************************************************)
\* Number(part)
Number(part) ==
    IF part[1] = "num" THEN part[2] ELSE IF part[2] = "" THEN 0 ELSE NaN

\* interaction.customId.startsWith(this.data.customId)
startsWith(str, prefix) ==
    Len(str) >= Len(prefix) /\ SubSeq(str, 1, Len(prefix)) = prefix

\* `${customId}--${i}`
ValueOf(id, part) == id \o <<part>>

Junk == {<<"txt", "abc">>, <<"txt", "">>, <<"num", 0 - 1>>, <<"num", Len(options)>>}

\* the values of a select-menu response: none, one of the keys, two of the
\* keys (ascending, or the first two descending), or one value that names
\* no index of the array
Responses ==
    LET ks == {<<>>} \cup {<<a>> : a \in BKeys}
                  \cup {p \in BKeys \X BKeys : p[1] < p[2] \/ p = <<length - 1, 0>>}
    IN  {[i \in 1..Len(s) |-> ValueOf(<<"menu">>, <<"num", s[i]>>)] : s \in ks}
            \cup {<<ValueOf(<<"menu">>, j)>> : j \in Junk}

Suffixes == {"firstPage", "prevPage", "nextPage", "lastPage", "btn-never"}

Interactions ==
    {[customId |-> <<"menu", <<"txt", x>>>>, isButton |-> TRUE, values |-> <<>>] :
         x \in Suffixes}
      \cup {[customId |-> <<"menu">>, isButton |-> FALSE, values |-> v] :
                v \in Responses}
      \cup {[customId |-> <<"other">>, isButton |-> FALSE,
             values |-> <<ValueOf(<<"other">>, <<"num", 0>>)>>]}

hasComponent(interaction) ==
    customId # undefined /\ startsWith(interaction.customId, customId)

\* this.options.at(i): <<>> when undefined
at(i) ==
    LET k == IF i >= 0 THEN i ELSE Len(options) + i
    IN  IF k < 0 \/ k >= Len(options) THEN undefined ELSE <<options[k + 1]>>

\* for (const i of idsOnPage) ... this.data.selected.set(i, selectedOption)
RECURSIVE setEach(_, _)
setEach(c, ids) ==
    IF ids = <<>> THEN c
    ELSE setEach(IF at(Head(ids)) = undefined THEN c
                 ELSE set(c, Head(ids), at(Head(ids))[1]),
                 Tail(ids))

\* updateSelectedFromValues that keeps the carried selection
updateSelectedFromValues_KeepCarried(values) ==
    LET content == getPage(pages, undefined).page
        currentPage == keySet(content)
        start == MathMin(currentPage)
        end == MathMax(currentPage)
        st == IF ~carrySelected(pages)
              THEN filterValuesIn(Sel, {i \in keySet(dataSelected) :
                                            i >= end \/ i < start})
              ELSE Sel
        parsed == [i \in 1..Len(values) |-> Number(values[i][Len(values[i])])]
        idsOnPage == SelectSeq(parsed, LAMBDA n : n # NaN /\ isFinite(n))
    IN  [st EXCEPT !.heap[st.dataSel] = setEach(st.heap[st.dataSel], idsOnPage)]

\* updateSelectedFromValues that drops the selections of every page
updateSelectedFromValues_AllPages(values) ==
    LET content == getPage(pages, undefined).page
        currentPage == keySet(content)
        start == MathMin(currentPage)
        end == MathMax(currentPage)
        st == IF ~carrySelected(pages)
              THEN filterValuesIn(Sel, {})
              ELSE [Sel EXCEPT !.heap[dataSel] = <<>>]
        parsed == [i \in 1..Len(values) |-> Number(values[i][Len(values[i])])]
        idsOnPage == SelectSeq(parsed, LAMBDA n : n # NaN /\ isFinite(n))
    IN  [st EXCEPT !.heap[st.dataSel] = setEach(st.heap[st.dataSel], idsOnPage)]

\* updateSelectedFromValues(values): the selection after it
updateSelectedFromValues(values) ==
    LET content == getPage(pages, undefined).page
        currentPage == keySet(content)
        start == MathMin(currentPage)
        end == MathMax(currentPage)
        st == IF ~carrySelected(pages)
              THEN filterValuesIn(Sel, {i \in keySet(dataSelected) :
                                            i >= end \/ i < start})
              ELSE [Sel EXCEPT !.heap[dataSel] = <<>>]
        parsed == [i \in 1..Len(values) |-> Number(values[i][Len(values[i])])]
        idsOnPage == SelectSeq(parsed, LAMBDA n : n # NaN /\ isFinite(n))
    IN  [st EXCEPT !.heap[st.dataSel] = setEach(st.heap[st.dataSel], idsOnPage)]

\* the switch of isInteraction with firstPage as its default
ButtonPage_DefaultFirst(id) ==
    CASE id = <<"txt", "prevPage">> -> previous(pages)
      [] id = <<"txt", "nextPage">> -> next(pages)
      [] id = <<"txt", "lastPage">> -> last(pages)
      [] OTHER -> first(pages)

ButtonPage(id) ==
    CASE id = <<"txt", "firstPage">> -> first(pages)
      [] id = <<"txt", "prevPage">> -> previous(pages)
      [] id = <<"txt", "nextPage">> -> next(pages)
      [] id = <<"txt", "lastPage">> -> last(pages)
      [] OTHER -> current

\* after a select-menu response ret.arg holds the values of the response,
\* after a button or a foreign interaction the customId of the interaction
isInteraction ==
    \E interaction \in Interactions :
        /\ Followed
        /\ IF ~hasComponent(interaction)
           THEN /\ ret' = Call("isInteraction", interaction.customId,
                               [kind |-> "false", page |-> <<>>])
                /\ UNCHANGED <<heap, dataSel, pagesSel, current>>
           ELSE /\ ret' = Call(IF interaction.isButton THEN "isInteraction:button"
                               ELSE "isInteraction:select",
                               IF interaction.isButton THEN interaction.customId
                               ELSE interaction.values,
                               [kind |-> "true", page |-> <<>>])
                /\ IF interaction.isButton
                   THEN LET getPageButtonId ==
                                interaction.customId[Len(interaction.customId)]
                        IN  /\ Capped(ButtonPage(getPageButtonId))
                            /\ current' = ButtonPage(getPageButtonId)
                            /\ UNCHANGED <<heap, dataSel, pagesSel>>
                   ELSE LET st == updateSelectedFromValues(interaction.values)
                        IN  /\ SelBound(st.heap[st.dataSel])
                            /\ Store(st)
                            /\ current' = current
        /\ UNCHANGED <<options, minChoices, maxChoices, customId>>

Next ==
    \/ setCustomId
    \/ setMinChoices
    \/ setMaxChoices
    \/ setValues
    \/ addValues
    \/ filterValues
    \/ clearValues
    \/ popValue
    \/ toFirstPage
    \/ toPreviousPage
    \/ toNextPage
    \/ toLastPage
    \/ isInteraction

Spec == Init /\ [][Next]_vars

\* selectedOnPage(onPage): the entries of the page whose index is selected
selectedOnPage(onPage) ==
    SelectSeq(getPage(pages, onPage).page, LAMBDA v : has(dataSelected, v[1]))

(***************************************************************************)
(* The properties.                                                         *)
(***************************************************************************)
NavOps == {"first", "previous", "next", "last"}

\* minChoices == 0, more than 25 items, selected.size >= effective maxChoices
ConstrainedMovement ==
    /\ minChoices = 0
    /\ Len(options) > 25
    /\ size(selected) >= (IF maxChoices = undefined THEN Len(options)
                          ELSE maxChoices[1])

SelectedKeys == keySet(selected)

\* the smallest and the largest element of a non-empty set of integers
Least(S) == CHOOSE x \in S : \A y \in S : x <= y

Greatest(S) == CHOOSE x \in S : \A y \in S : x >= y

\* ceil(n / 25) for n >= 0
Ceil25(n) == (n + 24) \div 25

\* C1: after any sequence of operations 0 <= current <= max, with max
\* recomputed from the collection, the selection and minChoices (stated for
\* a non-empty collection, a selection of at most MaxSel indices of the
\* collection and a finite current, where max is a page number)
C1_CurrentInRange ==
    (/\ Len(options) > 0
     /\ isFinite(current)
     /\ size(selected) <= MaxSel
     /\ SelectedKeys \subseteq 0..(Len(options) - 1))
        => (0 <= current /\ current <= max(pages))

\* C2: in carry mode every page that getPage returns begins with all the
\* selected entries in insertion order, and selectedOnPage has exactly
\* selected.size elements
C2_CarriedOnEveryPage ==
    minChoices > 0 =>
        \A p \in PageArgs :
            getPage(pages, p).kind = "ok" =>
                /\ Len(getPage(pages, p).page) >= size(selected)
                /\ SubSeq(getPage(pages, p).page, 1, size(selected)) = selected
                /\ Len(selectedOnPage(p)) = size(selected)

C2_Witness ==
    /\ minChoices > 0
    /\ ret.op = "getPage"
    /\ ret.arg = <<0>>
    /\ ret.out.kind = "ok"
    /\ size(selected) = 2
    /\ selected[1][1] > selected[2][1]
    /\ selected[1][1] >= 2 * length
    /\ Len(ret.out.page) = length

\* the slice [25p, 25p + 25) of the collection with its indices
ExpectedSlice(p) ==
    LET n == IF Len(options) - 25 * p < 25 THEN Len(options) - 25 * p ELSE 25
    IN  [i \in 1..n |-> <<25 * p + i - 1, options[25 * p + i]>>]

RECURSIVE ConcatPages(_)
ConcatPages(p) ==
    IF p < 0 THEN <<>> ELSE ConcatPages(p - 1) \o getPage(pages, <<p>>).page

\* C3: without carry, max = ceil(L / 25) - 1, getPage(p) for p in 0..max is
\* the slice [25p, 25p + 25) with the original indices whatever is selected,
\* and the pages 0..max in order make up the collection with indices 0..L-1
C3_PlainPages ==
    minChoices = 0 =>
        /\ max(pages) = Ceil25(Len(options)) - 1
        /\ \A p \in 0..max(pages) :
               getPage(pages, <<p>>) = [kind |-> "ok", page |-> ExpectedSlice(p)]
        /\ ConcatPages(max(pages)) =
               [i \in 1..Len(options) |-> <<i - 1, options[i]>>]

C3_Witness ==
    /\ minChoices = 0
    /\ Len(options) = length + 1
    /\ size(selected) = 2
    /\ ret.op = "getPage"
    /\ ret.arg = <<1>>
    /\ ret.out = [kind |-> "ok", page |-> <<<<length, options[length + 1]>>>>]

\* C4: getPage never returns more than 25 entries: it raises the page
\* length error when the page it computed has more
C4_PageFits ==
    \A p \in PageArgs :
        /\ getPage(pages, p).kind = "ok" => Len(getPage(pages, p).page) <= 25
        /\ getPage(pages, p).kind = "throw" => Len(getPage(pages, p).page) > 25

C4_Witness ==
    /\ ret.op = "getPage"
    /\ ret.out.kind = "throw"
    /\ size(selected) = length + 1

\* C5: in every state the builder's public operations reach, getPage (and
\* with it optionsOnPage, selectedOnPage, toActionRow) never raises the page
\* length error
C5_NoPageLengthError ==
    \A p \in PageArgs : getPage(pages, p).kind # "throw"

\* C6: in constrained movement, a navigation call that changes current lands
\* on a page whose index range holds a selected index
C6_LandsOnSelection ==
    (ret.op \in NavOps /\ ConstrainedMovement /\ current # ret.pre) =>
        \E k \in SelectedKeys : 25 * current <= k /\ k < 25 * current + 25

C6_Witness ==
    /\ ret.op = "next"
    /\ ConstrainedMovement
    /\ ret.pre = 0
    /\ current = 2
    /\ \A k \in SelectedKeys : k < 25 \/ k >= 50

\* C7: in constrained movement next() goes to the page floor(m / 25) of the
\* smallest selected index m >= 25 * current + 25, and stays when there is none
C7_NextTarget ==
    (ret.op = "next" /\ ConstrainedMovement) =>
        LET after == {k \in SelectedKeys : k >= 25 * ret.pre + 25}
        IN  IF after = {} THEN current = ret.pre
            ELSE current = Least(after) \div 25

C7_Witness ==
    /\ ret.op = "next"
    /\ ConstrainedMovement
    /\ ret.pre = 0
    /\ current = 1
    /\ SelectedKeys = {0, 25}

\* C8: in constrained movement previous() goes to the page floor(m / 25) of
\* the largest selected index m < 25 * current, and stays when there is none
C8_PreviousTarget ==
    (ret.op = "previous" /\ ConstrainedMovement) =>
        LET before == {k \in SelectedKeys : k < 25 * ret.pre}
        IN  IF before = {} THEN current = ret.pre
            ELSE current = Greatest(before) \div 25

C8_Witness ==
    /\ ret.op = "previous"
    /\ ConstrainedMovement
    /\ ret.pre = 1
    /\ current = 0
    /\ SelectedKeys = {24, 25}

\* C9: in constrained movement first() goes to the page floor(m / 25) of the
\* smallest selected index m, also when m is a multiple of 25, and stays
\* when nothing is selected
C9_FirstTarget ==
    (ret.op = "first" /\ ConstrainedMovement) =>
        IF SelectedKeys = {} THEN current = ret.pre
        ELSE current = Least(SelectedKeys) \div 25

C9_Witness ==
    /\ ret.op = "first"
    /\ ConstrainedMovement
    /\ Least(SelectedKeys \cup {Infinity}) = 25
    /\ ret.pre = 2
    /\ current = 1

\* C10: in constrained movement with a selection last() goes to the page
\* floor(M / 25) of the largest selected index M from any page
C10_LastTarget ==
    (ret.op = "last" /\ ConstrainedMovement /\ SelectedKeys # {}) =>
        current = Greatest(SelectedKeys) \div 25

C10_Witness ==
    /\ ret.op = "last"
    /\ ConstrainedMovement
    /\ ret.pre = 0
    /\ current = 2
    /\ SelectedKeys = {0, 50}

BuilderNavOps == {"toFirstPage", "toPreviousPage", "toNextPage", "toLastPage"}

\* C11: with free movement first() sets current to 0, previous() to
\* max(current - 1, 0), next() to min(current + 1, max) and last() to max,
\* so that the result is within [0, max] (stated for the builder's calls)
C11_FreeMovement ==
    (ret.op \in BuilderNavOps /\ ~ConstrainedMovement) =>
        /\ ret.op = "toFirstPage" => current = 0
        /\ ret.op = "toPreviousPage" => current = MathMax2(Plus(ret.pre, -1), 0)
        /\ ret.op = "toNextPage" => current = MathMin2(Plus(ret.pre, 1), max(pages))
        /\ ret.op = "toLastPage" => current = max(pages)
        /\ isFinite(current) /\ 0 <= current /\ current <= max(pages)

\* C12: movement is free exactly with carry mode, or at most 25 items, or
\* selected.size below maxChoices (the collection length when omitted), and
\* navigation skips pages only in the other states: there alone next() goes
\* further than one page, previous() further back than one page, first() to
\* another page than 0 and last() to another page than max
C12_FreeExactly ==
    /\ hasFreePageMovement(pages) <=>
           \/ minChoices > 0
           \/ Len(options) <= 25
           \/ size(selected) < (IF maxChoices = undefined THEN Len(options)
                                ELSE maxChoices[1])
    /\ hasFreePageMovement(pages) <=> ~ConstrainedMovement
    /\ (ret.op \in NavOps /\ isFinite(ret.pre) /\ isFinite(current)
            /\ ~ConstrainedMovement) =>
           /\ ret.op = "next" => current <= ret.pre + 1
           /\ ret.op = "previous" => current >= ret.pre - 1
           /\ ret.op = "first" => current = 0
           /\ ret.op = "last" => current = max(pages)

C12_Witness ==
    /\ ret.op = "previous"
    /\ ConstrainedMovement
    /\ ~hasFreePageMovement(pages)
    /\ ret.pre = 2
    /\ current = 0

\* C13: after any sequence of builder operations selected.size is at most
\* maxChoices ?? options.length, also after an operation that was rejected
C13_MaxRespected ==
    maxChoices # <<NaN>> => size(dataSelected) <= effectiveMax

\* the indices a response names, and the indices of the page that is shown
ResponseIds(values) == {values[i][Len(values[i])][2] : i \in 1..Len(values)}

PageIndices == keySet(getPage(pages, undefined).page)

\* every value of the response is the value of an option of the page shown
NamesPage(values) ==
    \A i \in 1..Len(values) :
        /\ values[i][Len(values[i])][1] = "num"
        /\ values[i][Len(values[i])][2] \in PageIndices

\* C14: without carry, after a select-menu response that names indices of
\* the current page, the selected indices within the page are exactly the
\* indices the response names
C14_PageReplaced ==
    (ret.op = "isInteraction:select" /\ minChoices = 0 /\ NamesPage(ret.arg)) =>
        keySet(dataSelected) \cap PageIndices = ResponseIds(ret.arg)

\* C15: in carry mode a select-menu response never clears a selection:
\* every index selected before the response is selected after it
C15_PinnedKept ==
    [][(ret'.op = "isInteraction:select" /\ carrySelected(pages))
           => keySet(dataSelected) \subseteq keySet(dataSelected')]_vars

\* the indices the values of a response resolve to: the number after the
\* last "--", where options.at() has an option
ResponseNumbers(values) ==
    {n \in {Number(values[i][Len(values[i])]) : i \in 1..Len(values)} :
         n # NaN /\ at(n) # undefined}

\* C15 as amended: in carry mode a select-menu response replaces the
\* selection: afterwards exactly the indices the response resolves to are
\* selected, each once
C15_ResponseReplaces ==
    (ret.op = "isInteraction:select" /\ carrySelected(pages)) =>
        /\ keySet(dataSelected) = ResponseNumbers(ret.arg)
        /\ size(dataSelected) = Cardinality(ResponseNumbers(ret.arg))

C15_Witness ==
    /\ ret.op = "isInteraction:select"
    /\ carrySelected(pages)
    /\ Len(ret.arg) = 1
    /\ ResponseNumbers(ret.arg) = {length}
    /\ keys(dataSelected) = <<length>>
    /\ current = 1

\* C16: without carry mode a select-menu response that names indices of
\* the current page leaves every index outside the page as it was,
\* selected or not
C16_OtherPagesKept ==
    [][(ret'.op = "isInteraction:select" /\ ~carrySelected(pages)
            /\ NamesPage(ret'.arg))
           => \A i \in (0..(Len(options) - 1)) \ PageIndices :
                  (i \in keySet(dataSelected)) <=> (i \in keySet(dataSelected'))]_vars

\* a selection made on page 0 is still there after a response on page 1
C16_Witness ==
    /\ ret.op = "isInteraction:select"
    /\ ~carrySelected(pages)
    /\ current = 1
    /\ NamesPage(ret.arg)
    /\ ResponseIds(ret.arg) = {length}
    /\ keySet(dataSelected) = {0, length}

\* toActionRow that asks for the customId before it looks at the options
toActionRow_IdFirst ==
    IF customId = undefined
    THEN [kind |-> "throw", rows |-> 0, min_values |-> undefined, max_values |-> undefined]
    ELSE IF Len(options) = 0
    THEN [kind |-> "ok", rows |-> 0, min_values |-> undefined, max_values |-> undefined]
    ELSE [kind |-> getPage(pages, undefined).kind,
          rows |-> IF max(pages) = 0 THEN 1 ELSE 2,
          min_values |-> <<minChoices>>, max_values |-> undefined]

\* toActionRow(): kind "ok" with the number of rows returned and the
\* min_values and max_values of the select menu, or the kind of failure:
\* "throw" without a customId or for the page-length error of getPage,
\* "hang" when getPage does not return
toActionRow ==
    IF Len(options) = 0
    THEN [kind |-> "ok", rows |-> 0, min_values |-> undefined, max_values |-> undefined]
    ELSE IF customId = undefined
    THEN [kind |-> "throw", rows |-> 0, min_values |-> undefined, max_values |-> undefined]
    ELSE LET shown == getPage(pages, undefined)
             currentMax ==
                 MathMin2(Plus(Plus(effectiveMax, 0 - size(dataSelected)),
                               Len(selectedOnPage(undefined))),
                          Len(shown.page))
         IN  IF shown.kind # "ok"
             THEN [kind |-> shown.kind, rows |-> 0,
                   min_values |-> undefined, max_values |-> undefined]
             ELSE [kind |-> "ok",
                   rows |-> IF max(pages) = 0 THEN 1 ELSE 2,
                   min_values |-> <<minChoices>>,
                   max_values |-> <<currentMax>>]

\* C17: a builder with a customId and at least one option renders one
\* row when it has at most 25 options and two rows when it has more
C17_RowCount ==
    (Ready /\ Len(options) > 0) =>
        /\ toActionRow.kind = "ok"
        /\ toActionRow.rows = IF Len(options) <= OPTIONS_LIMIT THEN 1 ELSE 2

\* the bounds of the two setters
MinInBounds(a) == a # NaN /\ 0 <= a /\ a <= MathMin2(OPTIONS_LIMIT, Len(options))

MaxInBounds(a) == a # NaN /\ 1 <= a /\ a <= Len(options)

\* C18: minChoices stays within 0..min(25, options.length) and maxChoices
\* stays unset or within 1..options.length; a setter called with an
\* amount outside its bounds throws and changes neither
C18_BoundsKept ==
    /\ [](/\ MinInBounds(minChoices)
          /\ maxChoices = undefined \/ MaxInBounds(maxChoices[1]))
    /\ [][/\ (ret'.op = "setMinChoices" /\ ~MinInBounds(ret'.arg[1]))
                 => (ret'.out = Invalid /\ UNCHANGED <<minChoices, maxChoices>>)
          /\ (ret'.op = "setMaxChoices" /\ ~MaxInBounds(ret'.arg[1]))
                 => (ret'.out = Invalid /\ UNCHANGED <<minChoices, maxChoices>>)]_vars

\* C19: in carry mode, while unselected options remain, the selection
\* leaves at least one place of the page free and max is a finite number
C19_CarryCapacity ==
    (carrySelected(pages) /\ size(pages.selected) < Len(options)) =>
        /\ length - size(pages.selected) >= 1
        /\ isFinite(max(pages))

\* C20: first, previous, next and last change nothing but current: the
\* collection, the selection (keys, values, order), minChoices and
\* maxChoices stay as they are; getPage changes nothing at all
C20_OnlyCurrent ==
    [][/\ ret'.op \in NavOps
              => UNCHANGED <<options, heap, dataSel, pagesSel, minChoices, maxChoices>>
       /\ ret'.op = "getPage"
              => UNCHANGED <<options, heap, dataSel, pagesSel, minChoices, maxChoices,
                             current>>]_vars

\* next() has moved a manager with a selection of two to the next page
C20_Witness ==
    /\ ret.op = "next"
    /\ current = ret.pre + 1
    /\ size(selected) = 2
    /\ maxChoices # undefined
    /\ carrySelected(pages)

\* C21: first, previous, next and last never raise, and in constrained
\* movement a call without a target (nothing selected, or no selected
\* index before the current page for previous, after it for next) leaves
\* current as it was
C21_NoTargetNoMove ==
    ret.op \in NavOps =>
        /\ ret.out.kind # "throw"
        /\ ConstrainedMovement =>
               /\ (ret.op \in {"first", "last"} /\ selected = <<>>)
                      => current = ret.pre
               /\ (ret.op = "previous"
                     /\ \A n \in SelectedKeys : ~Lt(n, Times(ret.pre, length)))
                      => current = ret.pre
               /\ (ret.op = "next"
                     /\ \A n \in SelectedKeys :
                            Lt(n, Plus(Times(ret.pre, length), length)))
                      => current = ret.pre

\* previous() on page 1 with the only selection on page 1
C21_Witness ==
    /\ ret.op = "previous"
    /\ ConstrainedMovement
    /\ SelectedKeys = {length}
    /\ ret.pre = 1
    /\ current = 1

\* first() of a manager that has nothing selected and may select nothing
C21_WitnessEmpty ==
    /\ ret.op = "first"
    /\ ConstrainedMovement
    /\ selected = <<>>
    /\ ret.pre = 2
    /\ current = 2

\* min(max(p, 0), max)
ClampPage(p) == MathMin2(MathMax2(p, 0), max(pages))

\* C22: getPage(p) is getPage of p clamped to [0, max], for p below 0 and
\* above max too, and getPage() is getPage(current) (stated for a manager
\* whose max is a page number)
C22_PageClamped ==
    (isFinite(max(pages)) /\ max(pages) >= 0) =>
        /\ \A p \in PageArgs \ {undefined} :
               getPage(pages, p) = getPage(pages, <<ClampPage(p[1])>>)
        /\ getPage(pages, undefined) = getPage(pages, <<current>>)

\* C23: a collection of at most 25 items has max = 0, in carry and in
\* non-carry mode and whatever is selected (stated for a non-empty
\* collection)
C23_SinglePage ==
    (0 < Len(options) /\ Len(options) <= length) => max(pages) = 0

\* C24: for an empty collection getPage returns the empty sequence and
\* does not raise, whatever current is and whatever page is asked for
C24_EmptyCollection ==
    Len(options) = 0 =>
        \A p \in PageArgs : getPage(pages, p) = [kind |-> "ok", page |-> <<>>]

\* getPage() of an empty collection in carry mode, after last() has set
\* current to max = -1
C24_Witness ==
    /\ Len(options) = 0
    /\ carrySelected(pages)
    /\ current = 0 - 1
    /\ ret.op = "getPage"
    /\ ret.arg = undefined
    /\ ret.out = [kind |-> "ok", page |-> <<>>]

\* C25: in carry mode with fewer than 25 selected, every page before the
\* last has exactly 25 entries
C25_FullPages ==
    (carrySelected(pages) /\ size(selected) < length /\ isFinite(max(pages))) =>
        \A p \in 0..(max(pages) - 1) :
            /\ getPage(pages, <<p>>).kind = "ok"
            /\ Len(getPage(pages, <<p>>).page) = length

\* C26: in both modes no page p in 0..max holds an original index twice
C26_DistinctIndices ==
    isFinite(max(pages)) =>
        \A p \in 0..max(pages) :
            getPage(pages, <<p>>).kind = "ok" =>
                Cardinality(keySet(getPage(pages, <<p>>).page))
                    = Len(getPage(pages, <<p>>).page)

\* a full carry-mode page whose window holds one of the two selected indices
C26_Witness ==
    /\ carrySelected(pages)
    /\ ret.op = "getPage"
    /\ ret.arg = <<1>>
    /\ ret.out.kind = "ok"
    /\ SelectedKeys = {0, length}
    /\ Len(ret.out.page) = length
    /\ Cardinality(keySet(ret.out.page)) = length

\* the integers a..b in order
Range(a, b) == [i \in 1..(b - a + 1) |-> a + i - 1]

\* the entries of the collection with the indices of s
EntriesOf(s) == [i \in 1..Len(s) |-> <<s[i], options[s[i] + 1]>>]

\* 50 items, 30, 31 and 32 selected, minChoices = maxChoices = 3
Example3 ==
    /\ Len(options) = 2 * length
    /\ keys(selected) = Neighbours
    /\ minChoices = 3
    /\ maxChoices = <<3>>

\* C27: in Example3 page 0 is the selections and 0..21, last() moves to
\* the final page, the selections and 47..49, and previous() from there
\* moves to the middle page, the selections and 22..43
C27_Example3 ==
    Example3 =>
        /\ getPage(pages, <<0>>)
               = [kind |-> "ok", page |-> EntriesOf(Neighbours \o Range(0, 21))]
        /\ ret.op = "last"
               => /\ current = max(pages)
                  /\ getPage(pages, undefined)
                         = [kind |-> "ok",
                            page |-> EntriesOf(Neighbours \o Range(47, 49))]
        /\ (ret.op = "previous" /\ ret.pre = max(pages))
               => /\ current = max(pages) - 1
                  /\ getPage(pages, undefined)
                         = [kind |-> "ok",
                            page |-> EntriesOf(Neighbours \o Range(22, 43))]

\* C27 as amended: the middle page is the selections and the 22 unselected
\* indices from 22 on, 22..29 and 33..46
C27_Example3Middle ==
    Example3 =>
        /\ getPage(pages, <<0>>)
               = [kind |-> "ok", page |-> EntriesOf(Neighbours \o Range(0, 21))]
        /\ ret.op = "last"
               => /\ current = max(pages)
                  /\ getPage(pages, undefined)
                         = [kind |-> "ok",
                            page |-> EntriesOf(Neighbours \o Range(47, 49))]
        /\ (ret.op = "previous" /\ ret.pre = max(pages))
               => /\ current = max(pages) - 1
                  /\ Len(getPage(pages, undefined).page) = length
                  /\ getPage(pages, undefined)
                         = [kind |-> "ok",
                            page |-> EntriesOf(Neighbours \o Range(22, 29)
                                                   \o Range(33, 46))]

C27_Witness ==
    /\ Example3
    /\ ret.op = "previous"
    /\ ret.pre = 2
    /\ current = 1
    /\ max(pages) = 2

\* C28: the values of a response that name no index of options add
\* nothing: every key of the selection is an index 0..options.length-1
\* and is mapped to the option at that index
C28_KeysAreIndices ==
    \A i \in 1..Len(dataSelected) :
        /\ dataSelected[i][1] \in 0..(Len(options) - 1)
        /\ dataSelected[i][2] = options[dataSelected[i][1] + 1]

IsInteractionOps == {"isInteraction", "isInteraction:button", "isInteraction:select"}

\* the customId of a button of this builder with the given suffix
ButtonId(suffix) == customId \o <<<<"txt", suffix>>>>

\* C29: isInteraction returns false and changes nothing when the builder
\* has no customId or the customId of the interaction does not start with
\* it; otherwise it returns true, and a button changes only current, as
\* the navigation call named by its suffix does, any other suffix
\* changing nothing
C29_Interaction ==
    [][/\ ret'.op = "isInteraction"
              => /\ customId = undefined \/ ~startsWith(ret'.arg, customId)
                 /\ ret'.out.kind = "false"
                 /\ UNCHANGED <<options, heap, dataSel, pagesSel, minChoices,
                                maxChoices, current, customId>>
       /\ ret'.op \in {"isInteraction:button", "isInteraction:select"}
              => /\ customId # undefined
                 /\ ret'.out.kind = "true"
       /\ ret'.op = "isInteraction:button"
              => /\ startsWith(ret'.arg, customId)
                 /\ UNCHANGED <<options, heap, dataSel, pagesSel, minChoices,
                                maxChoices, customId>>
                 /\ current' =
                        IF ret'.arg = ButtonId("firstPage") THEN first(pages)
                        ELSE IF ret'.arg = ButtonId("prevPage") THEN previous(pages)
                        ELSE IF ret'.arg = ButtonId("nextPage") THEN next(pages)
                        ELSE IF ret'.arg = ButtonId("lastPage") THEN last(pages)
                        ELSE current]_vars

\* the nextPage button has moved the builder from page 0 to page 1
C29_Witness ==
    /\ ret.op = "isInteraction:button"
    /\ ret.arg = ButtonId("nextPage")
    /\ ret.out.kind = "true"
    /\ ret.pre = 0
    /\ current = 1

\* the entries of the options with the indices S are in the selection
Holds(c, S) == \A i \in S : \E j \in 1..Len(c) : c[j] = <<i, options[i + 1]>>

\* C30: setValues(f) that does not throw leaves exactly the indices f
\* accepts selected, addValues(f) that does not throw leaves the previous
\* selection united with them, and both throw when the resulting size
\* exceeds maxChoices ?? options.length
C30_SetAndAdd ==
    [][/\ ret'.op = "setValues"
              => /\ ret'.out = Invalid <=> effectiveMax < Cardinality(ret'.arg[1])
                 /\ ret'.out = Ok
                        => /\ keySet(dataSelected') = ret'.arg[1]
                           /\ Holds(dataSelected', ret'.arg[1])
       /\ ret'.op = "addValues"
              => /\ ret'.out = Invalid
                        <=> effectiveMax
                              < Cardinality(keySet(dataSelected) \cup ret'.arg[1])
                 /\ ret'.out = Ok
                        => /\ keySet(dataSelected')
                                  = keySet(dataSelected) \cup ret'.arg[1]
                           /\ Holds(dataSelected', ret'.arg[1])]_vars

\* addValues has added index 25 to the selection of index 0
C30_Witness ==
    /\ ret.op = "addValues"
    /\ ret.arg = <<{length}>>
    /\ ret.out = Ok
    /\ keys(dataSelected) = <<0, length>>

\* C31: popValue removes the selection inserted last and returns its
\* item, leaving the other selections, their order and current as they
\* were; on an empty selection it returns undefined and changes nothing
C31_PopLast ==
    [][ret'.op = "popValue" =>
           IF dataSelected = <<>>
           THEN /\ ret'.out.page = <<>>
                /\ UNCHANGED <<options, heap, dataSel, pagesSel, minChoices,
                               maxChoices, current, customId>>
           ELSE /\ ret'.out.page = <<dataSelected[size(dataSelected)]>>
                /\ dataSelected' = SubSeq(dataSelected, 1, size(dataSelected) - 1)
                /\ size(dataSelected') = size(dataSelected) - 1
                /\ UNCHANGED <<options, minChoices, maxChoices, current,
                               customId>>]_vars

\* popValue has removed index 0, selected after index 24
C31_Witness ==
    /\ ret.op = "popValue"
    /\ ret.out.page = <<<<0, Item(0)>>>>
    /\ keys(dataSelected) = <<length - 1>>

\* C32: toActionRow returns no row for an empty options array, with or
\* without a customId; it throws for a non-empty array without a
\* customId; with a customId and nothing selected it does not throw
C32_ActionRowErrors ==
    /\ Len(options) = 0
           => (toActionRow.kind = "ok" /\ toActionRow.rows = 0)
    /\ (Len(options) > 0 /\ customId = undefined)
           => toActionRow.kind = "throw"
    /\ (Len(options) > 0 /\ customId # undefined /\ dataSelected = <<>>)
           => (toActionRow.kind = "ok" /\ toActionRow.rows \in {1, 2})

\* carry mode on the second page of 50 options with nothing selected
C32_Witness ==
    /\ Len(options) = 2 * length
    /\ customId # undefined
    /\ dataSelected = <<>>
    /\ carrySelected(pages)
    /\ maxChoices # undefined
    /\ current = 1
    /\ toActionRow.kind = "ok"
    /\ toActionRow.rows = 2

\* C33: first() called again right after first() changes nothing: current
\* and the rest of the state stay as the first call left them
C33_FirstIdempotent ==
    [][(ret.op = "first" /\ ret'.op = "first")
           => UNCHANGED <<options, heap, dataSel, pagesSel, minChoices, maxChoices,
                          current, customId>>]_vars

\* first() on the page that first() selects in constrained movement
C33_Witness ==
    /\ ret.op = "first"
    /\ ConstrainedMovement
    /\ SelectedKeys = {length, 2 * length}
    /\ ret.pre = 1
    /\ current = 1

\* the pages 0..max that show the index i
PagesShowing(i) ==
    {p \in 0..max(pages) : i \in keySet(getPage(pages, <<p>>).page)}

\* C34: in carry mode with fewer than 25 selected, every unselected index
\* of the collection is on exactly one of the pages 0..max
C34_EachUnselectedOnce ==
    (carrySelected(pages) /\ size(selected) < length /\ isFinite(max(pages))) =>
        \A i \in (0..(Len(options) - 1)) \ SelectedKeys :
            Cardinality(PagesShowing(i)) = 1

\* the values of current while next() (previous()) is called n times from c
RECURSIVE NextWalk(_, _)
NextWalk(c, n) ==
    IF n = 0 THEN <<c>>
    ELSE <<c>> \o NextWalk(next([pages EXCEPT !.current = c]), n - 1)

RECURSIVE PreviousWalk(_, _)
PreviousWalk(c, n) ==
    IF n = 0 THEN <<c>>
    ELSE <<c>> \o PreviousWalk(previous([pages EXCEPT !.current = c]), n - 1)

\* the pages that hold a selected index
SelectedPages == {k \div length : k \in SelectedKeys}

\* C35: in constrained movement with something selected, max calls of
\* next() from the page of first() visit exactly the pages that hold a
\* selected index, each step going up until the page of last() is
\* reached, where next() stays; likewise previous() from the page of
\* last() down to the page of first()
C35_WalkSelectedPages ==
    (ConstrainedMovement /\ selected # <<>>) =>
        LET up == NextWalk(first(pages), max(pages))
            down == PreviousWalk(last(pages), max(pages))
        IN  /\ {up[j] : j \in 1..Len(up)} = SelectedPages
            /\ \A j \in 1..(Len(up) - 1) :
                   \/ up[j] < up[j + 1]
                   \/ up[j] = last(pages) /\ up[j + 1] = last(pages)
            /\ up[Len(up)] = last(pages)
            /\ next([pages EXCEPT !.current = last(pages)]) = last(pages)
            /\ {down[j] : j \in 1..Len(down)} = SelectedPages
            /\ \A j \in 1..(Len(down) - 1) :
                   \/ down[j] > down[j + 1]
                   \/ down[j] = first(pages) /\ down[j + 1] = first(pages)
            /\ down[Len(down)] = first(pages)
            /\ previous([pages EXCEPT !.current = first(pages)]) = first(pages)

\* next() from page 0 has skipped page 1, which holds no selection
C35_Witness ==
    /\ ConstrainedMovement
    /\ SelectedKeys = {0, 2 * length}
    /\ ret.op = "next"
    /\ ret.pre = 0
    /\ current = 2
    /\ NextWalk(first(pages), max(pages)) = <<0, 2, 2>>

\* the page c holds a selected index
PageHoldsSelection(c) == \E k \in SelectedKeys : k \div length = c

\* the original page of a round trip: within 0..max, and in constrained
\* movement a page that holds a selected index
RoundTripFrom(c) ==
    /\ isFinite(c) /\ 0 <= c /\ Lt(c, Plus(max(pages), 1))
    /\ ConstrainedMovement => PageHoldsSelection(c)

\* C36: when next() has changed current, previous() right after it
\* restores it, and when previous() has changed current, next() right
\* after it restores it, for a current within 0..max that in constrained
\* movement is a page with a selected index
C36_RoundTrip ==
    [][/\ (ret.op = "next" /\ ret'.op = "previous" /\ current # ret.pre
              /\ RoundTripFrom(ret.pre))
             => current' = ret.pre
       /\ (ret.op = "previous" /\ ret'.op = "next" /\ current # ret.pre
              /\ RoundTripFrom(ret.pre))
             => current' = ret.pre]_vars

\* previous() back on page 0 from page 2, over page 1 without a selection
C36_Witness ==
    /\ ConstrainedMovement
    /\ SelectedKeys = {0, 2 * length}
    /\ ret.op = "previous"
    /\ ret.pre = 2
    /\ current = 0

\* navigatorButtons: whether the first/previous buttons (isAtStart) and
\* the next/last buttons (isAtEnd) are disabled
navigatorButtons ==
    LET currentPage == keySet(getPage(pages, undefined).page)
        start == MathMin(currentPage)
        end == MathMax(currentPage)
        edge == ~carrySelected(pages) /\ ~Lt(size(dataSelected), effectiveMax)
                    /\ effectiveMax # NaN
    IN  [isAtStart |-> current = 0
                         \/ (edge /\ \A n \in keySet(dataSelected) : n >= start),
         isAtEnd |-> (current = max(pages) /\ current # NaN)
                         \/ (edge /\ \A n \in keySet(dataSelected) : n <= end)]

\* toActionRow returns the row of navigator buttons
RendersNavigator == toActionRow.kind = "ok" /\ toActionRow.rows = 2

\* C37: where the navigator buttons are rendered, the first and previous
\* buttons are disabled exactly when toPreviousPage() would leave current
\* as it is, the next and last buttons exactly when toNextPage() would,
\* and an enabled button changes current
C37_ButtonsMatchMoves ==
    RendersNavigator =>
        /\ navigatorButtons.isAtStart <=> previous(pages) = current
        /\ navigatorButtons.isAtEnd <=> next(pages) = current
        /\ ~navigatorButtons.isAtStart => first(pages) # current
        /\ ~navigatorButtons.isAtEnd => last(pages) # current

\* C38: whenever toActionRow produces a select menu for accepted amounts,
\* its min_values is at most its max_values
C38_MinAtMostMax ==
    (Followed /\ toActionRow.kind = "ok" /\ toActionRow.rows > 0) =>
        ~Lt(toActionRow.max_values[1], toActionRow.min_values[1])

\* C39: data.selected and data.pages.selected are the same collection
\* after every sequence of builder operations, so the page manager reads
\* the selection of the builder
C39_OneSelection ==
    /\ dataSel = pagesSel
    /\ selected = dataSelected

\* filterValues has replaced the collection and kept one selected index of
\* a two-page menu
C39_Witness ==
    /\ ret.op = "filterValues"
    /\ Len(options) = 2 * length
    /\ keySet(dataSelected) = {length}
    /\ keySet(selected) = {length}

\* a select-menu response without carried selection has replaced the
\* collection and stored the index of the response
C39_WitnessResponse ==
    /\ ret.op = "isInteraction:select"
    /\ ~carrySelected(pages)
    /\ keySet(dataSelected) = {0}
    /\ keySet(selected) = {0}

====
